---- MODULE Spec2Model ----
(***************************************************************************)
(* BeeTrail backend (server.js): the Express handlers and the three        *)
(* MongoDB collections they read and write.                                *)
(*                                                                         *)
(* A request occupies one slot of req.  A handler is split at its awaits:  *)
(* the action named <Route>Start is the synchronous prefix (middleware,    *)
(* validators, everything up to the first await), and each later action    *)
(* is the database or bcrypt call the handler awaits together with the     *)
(* code that runs when the call returns, up to the next await or the       *)
(* response.  Steps of different requests interleave freely.               *)
(***************************************************************************)
EXTENDS Integers, Sequences, FiniteSets, TLC

VARIABLES users, hives, crops, issued, now, req

vars == <<users, hives, crops, issued, now, req>>

(***************************************************************************)
(* Bounds of the model.                                                    *)
(***************************************************************************)
MaxReq == 3
MaxInFlight == 2
MaxTime == 2
MaxSalt == 2
TicksPerHour == 2

\* The requests of a run, in the order they arrive.
Slots == DOMAIN req
Salts == 1..MaxSalt

(***************************************************************************)
(* Responses: res.status(s).json({ errors }) / .json({ error }) / ...      *)
(***************************************************************************)
NoResponse == [status |-> 0, kind |-> "none", data |-> <<>>]

ValidationErrors(fields) == [status |-> 400, kind |-> "errors", data |-> fields]

ErrorJson(status, message) == [status |-> status, kind |-> "error", data |-> message]

ServerError == ErrorJson(500, "Server error")

\* A slot of req: the route, where its handler stands, the request's inputs,
\* the handler's local variables, the response, and (history, read by no
\* handler) the requests that had been answered, the number of hive
\* documents stored and the time when this one arrived.
Idle ==
    [route |-> "none", pc |-> "idle", in |-> <<>>, loc |-> <<>>, res |-> NoResponse,
     seen |-> {}, len |-> 0, at |-> 0]

Answered == {q \in DOMAIN req : req[q].pc = "done"}

Arrival(route, pc, in) ==
    [route |-> route, pc |-> pc, in |-> in, loc |-> <<>>, res |-> NoResponse,
     seen |-> Answered, len |-> Len(hives), at |-> now]

InFlight == {q \in Slots : req[q].pc \notin {"idle", "done"}}

\* Requests are numbered in arrival order: slot p is taken once slot p-1 is.
\* At most MaxInFlight handlers are suspended at an await at a time.
CanArrive(p) ==
    /\ req[p].pc = "idle"
    /\ \A q \in Slots : q < p => req[q].pc # "idle"
    /\ Cardinality(InFlight) < MaxInFlight

Respond(p, response) ==
    req' = [req EXCEPT ![p].pc = "done", ![p].res = response]

Goto(p, pc, loc) ==
    req' = [req EXCEPT ![p].pc = pc, ![p].loc = loc]

\* } catch (err) { console.error(err); res.status(500).json({ error: 'Server error' }) }
\* -- the handler's locals go out of scope, err is what was thrown.
Catch(p, err) ==
    req' = [req EXCEPT ![p].pc = "done", ![p].res = ServerError, ![p].loc = [err |-> err]]

At(p, route, pc) == req[p].route = route /\ req[p].pc = pc

(***************************************************************************)
(* bcrypt: hash(password, salt) embeds the salt in its output, and         *)
(* compare(password, hash) re-hashes with the embedded salt.               *)
(***************************************************************************)
BcryptHash(password, salt) == [salt |-> salt, digest |-> <<salt, password>>]

BcryptCompare(password, hashed) == BcryptHash(password, hashed.salt) = hashed

(***************************************************************************)
(* Mongoose models.  A collection is the sequence of its documents in      *)
(* insertion order; _id is the position.                                   *)
(***************************************************************************)
\* Model.findOne({ field: value }): the documents matching, as a set of _ids.
FindUser(username) == {i \in DOMAIN users : users[i].username = username}

\* userSchema: username { unique: true } -- the unique index refuses a
\* second document with the same key (E11000), and save() rejects.
UserDuplicateKey(username) == FindUser(username) # {}

(***************************************************************************)
(* POST /auth/register                                                     *)
(***************************************************************************)
MinPasswordLength == 6

RegisterRoles == {"beekeeper", "admin"}

RegisterInvalid(body) ==
    {f \in {"username", "password", "role"} :
        \/ f = "username" /\ body.username = ""
        \/ f = "password" /\ Len(body.password) < MinPasswordLength
        \/ f = "role" /\ body.role \notin RegisterRoles}

RegisterStart(p, body) ==
    /\ CanArrive(p)
    /\ LET r == Arrival("register", "findOne", body)
       IN  IF RegisterInvalid(body) # {}
           THEN req' = [req EXCEPT ![p] =
                    [r EXCEPT !.pc = "done",
                              !.res = ValidationErrors(RegisterInvalid(body))]]
           ELSE req' = [req EXCEPT ![p] = r]
    /\ UNCHANGED <<users, hives, crops, issued, now>>

\* const existingUser = await User.findOne({ username })
RegisterFindOne(p) ==
    /\ At(p, "register", "findOne")
    /\ IF FindUser(req[p].in.username) # {}
       THEN Respond(p, ErrorJson(400, "Username already exists"))
       ELSE Goto(p, "hash", <<>>)
    /\ UNCHANGED <<users, hives, crops, issued, now>>

\* const salt = await bcrypt.genSalt(10);
\* const hashedPassword = await bcrypt.hash(password, salt)
\* (two awaits that touch no shared state: one step)
RegisterHash(p) ==
    /\ At(p, "register", "hash")
    /\ \E salt \in Salts :
          Goto(p, "save", [hashedPassword |-> BcryptHash(req[p].in.password, salt)])
    /\ UNCHANGED <<users, hives, crops, issued, now>>

\* A save that writes over the stored document of the same username.
RegisterSave_Upsert(p) ==
    /\ At(p, "register", "save")
    /\ LET user == [username |-> req[p].in.username,
                    password |-> req[p].loc.hashedPassword,
                    role |-> req[p].in.role]
       IN  users' = IF UserDuplicateKey(user.username)
                    THEN [i \in DOMAIN users |->
                             IF users[i].username = user.username THEN user ELSE users[i]]
                    ELSE Append(users, user)
    /\ Respond(p, [status |-> 201, kind |-> "message",
                   data |-> "User registered successfully"])
    /\ UNCHANGED <<hives, crops, issued, now>>

\* await user.save(): the insert, refused by the unique index on a
\* duplicate username; the rejection lands in the handler's catch.
RegisterSave(p) ==
    /\ At(p, "register", "save")
    /\ IF UserDuplicateKey(req[p].in.username)
       THEN /\ Catch(p, "E11000")
            /\ UNCHANGED users
       ELSE /\ users' = Append(users,
                    [username |-> req[p].in.username,
                     password |-> req[p].loc.hashedPassword,
                     role |-> req[p].in.role])
            /\ Respond(p, [status |-> 201, kind |-> "message",
                           data |-> "User registered successfully"])
    /\ UNCHANGED <<hives, crops, issued, now>>

(***************************************************************************)
(* POST /auth/login                                                        *)
(***************************************************************************)
\* { expiresIn: '1h' }
ExpiresIn == TicksPerHour

LoginInvalid(body) ==
    {f \in {"username", "password"} :
        \/ f = "username" /\ body.username = ""
        \/ f = "password" /\ body.password = ""}

UnknownUserResponse_NotFound == ErrorJson(404, "User not found")

\* return res.status(400).json({ error: 'Invalid credentials' }), twice
UnknownUserResponse == ErrorJson(400, "Invalid credentials")

WrongPasswordResponse == ErrorJson(400, "Invalid credentials")

LoginStart(p, body) ==
    /\ CanArrive(p)
    /\ LET r == Arrival("login", "findOne", body)
       IN  IF LoginInvalid(body) # {}
           THEN req' = [req EXCEPT ![p] =
                    [r EXCEPT !.pc = "done",
                              !.res = ValidationErrors(LoginInvalid(body))]]
           ELSE req' = [req EXCEPT ![p] = r]
    /\ UNCHANGED <<users, hives, crops, issued, now>>

\* const user = await User.findOne({ username })
LoginFindOne(p) ==
    /\ At(p, "login", "findOne")
    /\ LET found == FindUser(req[p].in.username)
       IN  IF found = {}
           THEN Respond(p, UnknownUserResponse)
           ELSE \E i \in found : Goto(p, "compare", [id |-> i, user |-> users[i]])
    /\ UNCHANGED <<users, hives, crops, issued, now>>

LoginPayload_DefaultRole(id, user, time) ==
    [id |-> id, username |-> user.username, role |-> "beekeeper", syncToken |-> time]

\* payload = { id, username, role, syncToken: Date.now() }
LoginPayload(id, user, time) ==
    [id |-> id, username |-> user.username, role |-> user.role, syncToken |-> time]

\* jwt.sign(payload, JWT_SECRET, { expiresIn: '1h' }): iat and exp are added
\* and the whole is signed with the server's secret.
JwtSign(payload, time) ==
    [kind |-> "jwt", payload |-> payload, iat |-> time, exp |-> time + ExpiresIn,
     sig |-> "JWT_SECRET"]

JwtVerify_NoExpiry(token, time) ==
    /\ token.kind = "jwt"
    /\ token.sig = "JWT_SECRET"

\* jwt.verify(token, JWT_SECRET): the token must parse, carry the server's
\* signature and not have reached exp.
JwtVerify(token, time) ==
    /\ token.kind = "jwt"
    /\ token.sig = "JWT_SECRET"
    /\ time < token.exp

\* const isMatch = await bcrypt.compare(password, user.password)
LoginCompare(p) ==
    /\ At(p, "login", "compare")
    /\ IF ~BcryptCompare(req[p].in.password, req[p].loc.user.password)
       THEN /\ Respond(p, WrongPasswordResponse)
            /\ UNCHANGED issued
       ELSE LET token == JwtSign(LoginPayload(req[p].loc.id, req[p].loc.user, now), now)
            IN  /\ Respond(p, [status |-> 200, kind |-> "token",
                               data |-> [token |-> token, syncToken |-> now]])
                /\ issued' = issued \cup {token}
    /\ UNCHANGED <<users, hives, crops, now>>

(***************************************************************************)
(* The server's clock (Date.now()).                                        *)
(***************************************************************************)
Tick ==
    /\ now < MaxTime
    /\ now' = now + 1
    /\ UNCHANGED <<users, hives, crops, issued, req>>

(***************************************************************************)
(* Registration and login against an empty users collection.               *)
(***************************************************************************)
RegisterBody(username, password, role) ==
    [username |-> username, password |-> password, role |-> role]

LoginBody(username, password) == [username |-> username, password |-> password]

RegisterBodies ==
    {RegisterBody("bee1", "secret1", "beekeeper"),
     RegisterBody("bee1", "secret2", "admin"),
     RegisterBody("bee1", "short", "admin"),
     RegisterBody("", "short", "guest")}

LoginBodies ==
    {LoginBody("bee1", "secret1"),
     LoginBody("bee1", "secret2"),
     LoginBody("bee2", "secret1"),
     LoginBody("bee1", ""),
     LoginBody("", "")}

InitAuth ==
    /\ users = <<>>
    /\ hives = <<>>
    /\ crops = <<>>
    /\ issued = {}
    /\ now = 0
    /\ req = [p \in 1..MaxReq |-> Idle]

NextAuth ==
    \/ \E p \in Slots, body \in RegisterBodies : RegisterStart(p, body)
    \/ \E p \in Slots : RegisterFindOne(p)
    \/ \E p \in Slots : RegisterHash(p)
    \/ \E p \in Slots : RegisterSave(p)
    \/ \E p \in Slots, body \in LoginBodies : LoginStart(p, body)
    \/ \E p \in Slots : LoginFindOne(p)
    \/ \E p \in Slots : LoginCompare(p)

SpecAuth == InitAuth /\ [][NextAuth]_vars

\* The register requests that passed validation and were answered.
RegisterAnswered(username) ==
    {p \in Slots : /\ req[p].route = "register" /\ req[p].pc = "done"
                   /\ req[p].in.username = username
                   /\ RegisterInvalid(req[p].in) = {}}

AllAnswered == \A p \in Slots : req[p].pc \in {"idle", "done"}

\* C1: of the valid POST /auth/register requests carrying one username,
\* however their steps interleave, exactly one is answered 201 and every
\* other one is answered 400 'Username already exists'.
C1_ExactlyOneRegisterSucceeds ==
    \A u \in {"bee1"} :
        LET done == RegisterAnswered(u)
            won == {p \in done : req[p].res.status = 201}
        IN  (AllAnswered /\ done # {}) =>
               /\ Cardinality(won) = 1
               /\ \A p \in done \ won :
                     req[p].res = ErrorJson(400, "Username already exists")

\* C4: a login that arrives after a registration of the same username and
\* password was answered 201 is answered 200 with a token that verifies and
\* whose payload carries the registered username and role.
C4_LoginAfterRegister ==
    \A l \in Slots : \A r \in req[l].seen :
        (/\ req[l].route = "login" /\ req[l].pc = "done"
         /\ req[r].route = "register" /\ req[r].res.status = 201
         /\ req[r].in.username = req[l].in.username
         /\ req[r].in.password = req[l].in.password)
        => /\ req[l].res.status = 200
           /\ JwtVerify(req[l].res.data.token, req[l].res.data.token.iat)
           /\ req[l].res.data.token.payload.username = req[r].in.username
           /\ req[l].res.data.token.payload.role = req[r].in.role

C4_Witness ==
    \E l \in Slots : \E r \in req[l].seen :
        /\ req[l].route = "login" /\ req[l].pc = "done"
        /\ req[r].route = "register" /\ req[r].res.status = 201
        /\ req[r].in = RegisterBody("bee1", "secret2", "admin")
        /\ req[l].in = LoginBody("bee1", "secret2")
        /\ req[l].res.status = 200

\* A login that passed validation and was refused.
LoginRefused(l) ==
    /\ req[l].route = "login" /\ req[l].pc = "done"
    /\ LoginInvalid(req[l].in) = {}
    /\ req[l].res.status # 200

\* C5: every login refused for its credentials gets the same response, 400
\* 'Invalid credentials', whether the username is unknown or the password
\* is wrong.
C5_SameRefusal ==
    \A l \in Slots : LoginRefused(l) => req[l].res = ErrorJson(400, "Invalid credentials")

\* One login refused for a username nobody registered, another refused for
\* the wrong password of a registered user.
C5_Witness ==
    \E l, m \in Slots : \E r \in req[m].seen :
        /\ LoginRefused(l) /\ FindUser(req[l].in.username) = {}
        /\ LoginRefused(m)
        /\ req[r].route = "register" /\ req[r].res.status = 201
        /\ req[r].in.username = req[m].in.username
        /\ req[r].in.password # req[m].in.password
        /\ req[l].res = req[m].res

(***************************************************************************)
(* authenticateToken and requireAdmin                                      *)
(***************************************************************************)
NoHeader == [kind |-> "absent"]

\* "Bearer" with nothing after it
SchemeOnly == [kind |-> "scheme"]

Bearer(token) == [kind |-> "bearer", token |-> token]

Undefined == [kind |-> "undefined"]

\* const token = authHeader && authHeader.split(' ')[1]
HeaderToken(header) == IF header.kind = "bearer" THEN header.token ELSE Undefined

\* What authenticateToken answers, or NoResponse when it calls next().
AuthenticateToken(header, time) ==
    IF HeaderToken(header) = Undefined
    THEN ErrorJson(401, "Access token required")
    ELSE IF ~JwtVerify(HeaderToken(header), time)
         THEN ErrorJson(403, "Invalid token")
         ELSE NoResponse

\* req.user = user: the verified token's payload
ReqUser(header) == HeaderToken(header).payload

(***************************************************************************)
(* Dates.  new Date(string) for the ISO 8601 strings the requests carry,   *)
(* as instants of the server's clock; validator's isISO8601 accepts        *)
(* exactly the strings of the table.                                       *)
(***************************************************************************)
DateTable ==
    [s \in {"2025-04-08T00:00Z", "2025-04-08T00:30Z", "2025-04-08T01:00Z",
            "2025-04-08T01:30Z"} |->
        CASE s = "2025-04-08T00:00Z" -> 0
          [] s = "2025-04-08T00:30Z" -> 1
          [] s = "2025-04-08T01:00Z" -> 2
          [] s = "2025-04-08T01:30Z" -> 3]

IsISO8601(s) == s \in DOMAIN DateTable

NewDate(s) == DateTable[s]

\* isFloat({ min, max }) / isInt({ min }) on a field; a field that is no
\* number is carried as a string.
IsNumber(v) == v \in Int

IsFloatIn(v, min, max) == IsNumber(v) /\ min <= v /\ v <= max

IsIntMin(v, min) == IsNumber(v) /\ min <= v

(***************************************************************************)
(* POST /api/hives                                                         *)
(***************************************************************************)
FindHive(hiveId) == {i \in DOMAIN hives : hives[i].hiveId = hiveId}

HiveDuplicateKey_NoIndex(hiveId) == FALSE

\* hiveSchema: hiveId { unique: true }
HiveDuplicateKey(hiveId) == FindHive(hiveId) # {}

PostHivesInvalid(body) ==
    {f \in {"hiveId", "datePlaced", "latitude", "longitude", "numColonies"} :
        \/ f = "hiveId" /\ body.hiveId = ""
        \/ f = "datePlaced" /\ ~IsISO8601(body.datePlaced)
        \/ f = "latitude" /\ ~IsFloatIn(body.latitude, -90, 90)
        \/ f = "longitude" /\ ~IsFloatIn(body.longitude, -180, 180)
        \/ f = "numColonies" /\ ~IsIntMin(body.numColonies, 1)}

\* A request of a route behind authenticateToken: in carries the header
\* beside the body or query.
PostHivesStart(p, header, body) ==
    /\ CanArrive(p)
    /\ LET r == Arrival("postHives", "findOne", [header |-> header, body |-> body])
           denied == AuthenticateToken(header, now)
       IN  IF denied # NoResponse
           THEN req' = [req EXCEPT ![p] = [r EXCEPT !.pc = "done", !.res = denied]]
           ELSE IF PostHivesInvalid(body) # {}
                THEN req' = [req EXCEPT ![p] =
                         [r EXCEPT !.pc = "done",
                                   !.res = ValidationErrors(PostHivesInvalid(body))]]
                ELSE req' = [req EXCEPT ![p] = r]
    /\ UNCHANGED <<users, hives, crops, issued, now>>

\* new Hive({ ... }): dateCreated defaults to Date.now at construction
NewHive(body, time) ==
    [hiveId |-> body.hiveId,
     datePlaced |-> NewDate(body.datePlaced),
     latitude |-> body.latitude,
     longitude |-> body.longitude,
     numColonies |-> body.numColonies,
     dateCreated |-> time]

\* const existingHive = await Hive.findOne({ hiveId })
PostHivesFindOne(p) ==
    /\ At(p, "postHives", "findOne")
    /\ IF FindHive(req[p].in.body.hiveId) # {}
       THEN Respond(p, ErrorJson(400, "hiveId must be unique"))
       ELSE Goto(p, "save", [hive |-> NewHive(req[p].in.body, now)])
    /\ UNCHANGED <<users, hives, crops, issued, now>>

\* await hive.save()
PostHivesSave(p) ==
    /\ At(p, "postHives", "save")
    /\ IF HiveDuplicateKey(req[p].loc.hive.hiveId)
       THEN /\ Catch(p, "E11000")
            /\ UNCHANGED hives
       ELSE /\ hives' = Append(hives, req[p].loc.hive)
            /\ Respond(p, [status |-> 201, kind |-> "hive", data |-> req[p].loc.hive])
    /\ UNCHANGED <<users, crops, issued, now>>

(***************************************************************************)
(* GET /api/hives                                                          *)
(***************************************************************************)
DefaultPage == 1
DefaultLimit == 10

\* parseInt on a query parameter: {n}, or {} for NaN ("" is a parameter
\* that is absent or empty).
ParseInt(s) ==
    CASE s = "0" -> {0}
      [] s = "1" -> {1}
      [] s = "2" -> {2}
      [] s = "3" -> {3}
      [] OTHER -> {}

\* parseInt(x) || d
OrDefault(parsed, d) ==
    IF parsed = {} \/ parsed = {0} THEN d ELSE CHOOSE n \in parsed : TRUE

\* queryObj: { datePlaced: { $gte: new Date(startDate), $lte: new Date(endDate) } },
\* each bound only when its parameter is truthy
MatchesQuery(hive, query) ==
    /\ query.startDate # "" => hive.datePlaced >= NewDate(query.startDate)
    /\ query.endDate # "" => hive.datePlaced <= NewDate(query.endDate)

Matching(n, query) == {i \in 1..n : MatchesQuery(hives[i], query)}

\* The orders .sort({ datePlaced: -1 }) can give the documents ids: every
\* arrangement with datePlaced non-increasing (ties in any order).
Injective(order) == \A a, b \in DOMAIN order : a # b => order[a] # order[b]

SortedOrders_Ascending(ids) ==
    {order \in [1..Cardinality(ids) -> ids] :
        /\ Injective(order)
        /\ \A a, b \in DOMAIN order :
              a < b => hives[order[a]].datePlaced <= hives[order[b]].datePlaced}

SortedOrders(ids) ==
    {order \in [1..Cardinality(ids) -> ids] :
        /\ Injective(order)
        /\ \A a, b \in DOMAIN order :
              a < b => hives[order[a]].datePlaced >= hives[order[b]].datePlaced}

Min(a, b) == IF a <= b THEN a ELSE b

\* .skip(n).limit(m) of a sorted result
SkipLimit(order, skip, limit) ==
    [k \in 1..Min(limit, IF Len(order) > skip THEN Len(order) - skip ELSE 0) |->
        order[skip + k]]

\* Math.ceil(count / limit)
Ceil(count, limit) == (count + limit - 1) \div limit

GetHivesStart(p, header, query) ==
    /\ CanArrive(p)
    /\ LET r == Arrival("getHives", "find", [header |-> header, query |-> query])
           denied == AuthenticateToken(header, now)
       IN  IF denied # NoResponse
           THEN req' = [req EXCEPT ![p] = [r EXCEPT !.pc = "done", !.res = denied]]
           ELSE req' = [req EXCEPT ![p] =
                    [r EXCEPT !.loc =
                        [page |-> OrDefault(ParseInt(query.page), DefaultPage),
                         limit |-> OrDefault(ParseInt(query.limit), DefaultLimit)]]]
    /\ UNCHANGED <<users, hives, crops, issued, now>>

\* (nFind and nCount are history: how many documents the collection held
\* when each of the two queries ran)
\* await Hive.find(queryObj).skip((page - 1) * limit).limit(limit).sort({ datePlaced: -1 })
\* (a Mongoose query sorts before it skips and limits, whatever the order
\* of the calls)
GetHivesFind(p) ==
    /\ At(p, "getHives", "find")
    /\ LET page == req[p].loc.page
           limit == req[p].loc.limit
       IN  \E order \in SortedOrders(Matching(Len(hives), req[p].in.query)) :
              Goto(p, "count",
                   [page |-> page, limit |-> limit,
                    nFind |-> Len(hives), nCount |-> 0,
                    hives |-> [k \in DOMAIN SkipLimit(order, (page - 1) * limit, limit) |->
                                  hives[SkipLimit(order, (page - 1) * limit, limit)[k]]]])
    /\ UNCHANGED <<users, hives, crops, issued, now>>

\* const count = await Hive.countDocuments(queryObj)
GetHivesCount(p) ==
    /\ At(p, "getHives", "count")
    /\ LET count == Cardinality(Matching(Len(hives), req[p].in.query))
       IN  req' = [req EXCEPT
                ![p].pc = "done",
                ![p].loc = [req[p].loc EXCEPT !.nCount = Len(hives)],
                ![p].res = [status |-> 200, kind |-> "hives",
                            data |-> [hives |-> req[p].loc.hives,
                                      total |-> count,
                                      page |-> req[p].loc.page,
                                      pages |-> Ceil(count, req[p].loc.limit)]]]
    /\ UNCHANGED <<users, hives, crops, issued, now>>

(***************************************************************************)
(* The hive routes, called by two users who registered and logged in       *)
(* earlier.                                                                *)
(***************************************************************************)
SeedUsers ==
    << [username |-> "admin1", password |-> BcryptHash("adminPass123", 1), role |-> "admin"],
       [username |-> "bee1", password |-> BcryptHash("password123", 2), role |-> "beekeeper"] >>

\* The token POST /auth/login gave user i at the given time.
SeedToken(i, time) == JwtSign(LoginPayload(i, SeedUsers[i], time), time)

HiveBody(hiveId, datePlaced, latitude, longitude, numColonies) ==
    [hiveId |-> hiveId, datePlaced |-> datePlaced, latitude |-> latitude,
     longitude |-> longitude, numColonies |-> numColonies]

HiveBodies ==
    {HiveBody("HIVE004", "2025-04-08T00:30Z", 28, 77, 5),
     HiveBody("HIVE004", "2025-04-08T01:00Z", 28, 77, 5),
     HiveBody("HIVE005", "2025-04-08T01:00Z", -90, 180, 1),
     HiveBody("", "yesterday", 91, -181, 0)}

HivesQuery(startDate, endDate, page, limit) ==
    [startDate |-> startDate, endDate |-> endDate, page |-> page, limit |-> limit]

HiveQueries ==
    {HivesQuery("", "", "", ""),
     HivesQuery("", "", "2", "1"),
     HivesQuery("2025-04-08T01:00Z", "", "1", "1"),
     HivesQuery("2025-04-08T00:30Z", "2025-04-08T01:00Z", "x", "2")}

\* One request of each route without a token; the others carry bee1's.
HivePosts ==
    {<<Bearer(SeedToken(2, 0)), body>> : body \in HiveBodies}
        \cup {<<NoHeader, HiveBody("HIVE004", "2025-04-08T00:30Z", 28, 77, 5)>>}

HiveGets ==
    {<<Bearer(SeedToken(2, 0)), query>> : query \in HiveQueries}
        \cup {<<NoHeader, HivesQuery("", "", "", "")>>}

InitHives ==
    /\ users = SeedUsers
    /\ hives = <<>>
    /\ crops = <<>>
    /\ issued = {SeedToken(1, 0), SeedToken(2, 0)}
    /\ now = 0
    /\ req = [p \in 1..MaxReq |-> Idle]

NextHives ==
    \/ \E p \in Slots, post \in HivePosts : PostHivesStart(p, post[1], post[2])
    \/ \E p \in Slots : PostHivesFindOne(p)
    \/ \E p \in Slots : PostHivesSave(p)
    \/ \E p \in Slots, get \in HiveGets : GetHivesStart(p, get[1], get[2])
    \/ \E p \in Slots : GetHivesFind(p)
    \/ \E p \in Slots : GetHivesCount(p)

SpecHives == InitHives /\ [][NextHives]_vars

\* C2: no two stored hive documents have the same hiveId, also when two
\* POST /api/hives with one hiveId both pass findOne before either saves.
C2_HiveIdUnique ==
    \A i, j \in DOMAIN hives : i # j => hives[i].hiveId # hives[j].hiveId

\* A POST /api/hives that got past authenticateToken and the validators.
PostHivesAdmitted(p) ==
    /\ req[p].route = "postHives"
    /\ AuthenticateToken(req[p].in.header, req[p].at) = NoResponse
    /\ PostHivesInvalid(req[p].in.body) = {}

\* Two requests with one hiveId were both past findOne, one saved and the
\* index refused the other.
C2_Witness ==
    \E p, q \in Slots :
        /\ PostHivesAdmitted(p) /\ PostHivesAdmitted(q)
        /\ req[p].in.body.hiveId = req[q].in.body.hiveId
        /\ req[p].res.status = 201
        /\ req[q].pc = "done" /\ req[q].res = ServerError

\* Whether a document with p's hiveId was stored when p arrived.
StoredOnArrival(p) ==
    \E i \in 1..req[p].len : hives[i].hiveId = req[p].in.body.hiveId

\* C3: an authenticated, valid POST /api/hives is answered 400 and stores
\* nothing if its hiveId is already stored, and is answered 201 with its
\* record stored if it is not.  ("Already stored" is taken at whichever
\* moment of the request favours the claim: a request answered 400 needs the
\* hiveId stored by the time of the answer, and only a hiveId stored on
\* arrival forces the 400.)
C3_AddHiveOutcome ==
    \A p \in Slots :
        (PostHivesAdmitted(p) /\ req[p].pc = "done") =>
            \/ /\ req[p].res = ErrorJson(400, "hiveId must be unique")
               /\ FindHive(req[p].in.body.hiveId) # {}
            \/ /\ req[p].res.status = 201
               /\ ~StoredOnArrival(p)
               /\ \E i \in DOMAIN hives : hives[i] = req[p].res.data

\* The page and page size a query asks for.
Requested(s, default) == IF ParseInt(s) = {} THEN default ELSE CHOOSE n \in ParseInt(s) : TRUE

InRange(hive, query) ==
    /\ query.startDate # "" => DateTable[query.startDate] <= hive.datePlaced
    /\ query.endDate # "" => hive.datePlaced <= DateTable[query.endDate]

\* C10: GET /api/hives returns the documents with datePlaced in
\* [startDate, endDate], in descending datePlaced order, cut to the
\* 1-indexed page asked for (default page 1 of 10), with total the number
\* of matching documents and pages the ceiling of total / page size.
C10_ListPage ==
    \A p \in Slots :
        (req[p].route = "getHives" /\ req[p].res.status = 200) =>
            LET query == req[p].in.query
                page == Requested(query.page, 1)
                size == Requested(query.limit, 10)
                got == req[p].res.data
                found == {hives[i] : i \in {j \in 1..req[p].loc.nFind :
                                              InRange(hives[j], query)}}
                counted == {i \in 1..req[p].loc.nCount : InRange(hives[i], query)}
                before == (page - 1) * size
                rest == IF Cardinality(found) > before
                        THEN Cardinality(found) - before ELSE 0
            IN  /\ Len(got.hives) = (IF rest < size THEN rest ELSE size)
                /\ \A k \in DOMAIN got.hives :
                      /\ got.hives[k] \in found
                      /\ Cardinality({h \in found :
                            h.datePlaced > got.hives[k].datePlaced}) <= before + k - 1
                      /\ Cardinality({h \in found :
                            h.datePlaced >= got.hives[k].datePlaced}) >= before + k
                /\ \A a, b \in DOMAIN got.hives :
                      a < b => /\ got.hives[a] # got.hives[b]
                               /\ got.hives[a].datePlaced >= got.hives[b].datePlaced
                /\ got.total = Cardinality(counted)
                /\ got.page = page
                /\ got.pages * size >= got.total
                /\ (got.pages - 1) * size < got.total \/ got.pages = 0

\* The second page of size 1 of two stored hives, and a filtered list.
C10_Witness ==
    \E p, q \in Slots :
        /\ req[p].route = "getHives" /\ req[p].res.status = 200
        /\ req[p].in.query = HivesQuery("", "", "2", "1")
        /\ Len(req[p].res.data.hives) = 1 /\ req[p].res.data.pages = 2
        /\ req[p].res.data.hives[1].datePlaced = 1
        /\ req[q].route = "postHives" /\ req[q].res.status = 201
        /\ req[q].in.body.datePlaced = "2025-04-08T01:00Z"

(***************************************************************************)
(* POST /api/crops                                                         *)
(***************************************************************************)
PostCropsInvalid(body) ==
    {f \in {"name", "floweringStart", "floweringEnd", "latitude", "longitude",
            "recommendedHiveDensity"} :
        \/ f = "name" /\ body.name = ""
        \/ f = "floweringStart" /\ ~IsISO8601(body.floweringStart)
        \/ f = "floweringEnd" /\ ~IsISO8601(body.floweringEnd)
        \/ f = "latitude" /\ ~IsFloatIn(body.latitude, -90, 90)
        \/ f = "longitude" /\ ~IsFloatIn(body.longitude, -180, 180)
        \/ f = "recommendedHiveDensity" /\ ~IsIntMin(body.recommendedHiveDensity, 1)}

FloweringOrderInvalid_Strict(body) ==
    NewDate(body.floweringStart) > NewDate(body.floweringEnd)

\* if (new Date(floweringStart) >= new Date(floweringEnd))
FloweringOrderInvalid(body) ==
    NewDate(body.floweringStart) >= NewDate(body.floweringEnd)

\* new Crop({ ..., location: { type: 'Point',
\*            coordinates: [parseFloat(longitude), parseFloat(latitude)] } })
NewCrop(body, time) ==
    [name |-> body.name,
     floweringStart |-> NewDate(body.floweringStart),
     floweringEnd |-> NewDate(body.floweringEnd),
     recommendedHiveDensity |-> body.recommendedHiveDensity,
     location |-> [type |-> "Point", coordinates |-> <<body.longitude, body.latitude>>],
     dateCreated |-> time]

PostCropsStart(p, header, body) ==
    /\ CanArrive(p)
    /\ LET r == Arrival("postCrops", "save", [header |-> header, body |-> body])
           denied == AuthenticateToken(header, now)
           answer(response) == req' = [req EXCEPT ![p] =
                                  [r EXCEPT !.pc = "done", !.res = response]]
       IN  IF denied # NoResponse
           THEN answer(denied)
           ELSE IF PostCropsInvalid(body) # {}
                THEN answer(ValidationErrors(PostCropsInvalid(body)))
                ELSE IF FloweringOrderInvalid(body)
                     THEN answer(ErrorJson(400, "floweringStart must be before floweringEnd"))
                     ELSE req' = [req EXCEPT ![p] =
                              [r EXCEPT !.loc = [crop |-> NewCrop(body, now)]]]
    /\ UNCHANGED <<users, hives, crops, issued, now>>

\* cropSchema.index({ location: '2dsphere' }): a point the index can hold
\* is [longitude, latitude] with both in range; save() rejects any other.
ValidGeoPoint(coordinates) ==
    /\ -180 <= coordinates[1] /\ coordinates[1] <= 180
    /\ -90 <= coordinates[2] /\ coordinates[2] <= 90

\* await crop.save()
PostCropsSave(p) ==
    /\ At(p, "postCrops", "save")
    /\ IF ~ValidGeoPoint(req[p].loc.crop.location.coordinates)
       THEN /\ Catch(p, "GeoIndex")
            /\ UNCHANGED crops
       ELSE /\ crops' = Append(crops, req[p].loc.crop)
            /\ Respond(p, [status |-> 201, kind |-> "crop", data |-> req[p].loc.crop])
    /\ UNCHANGED <<users, hives, issued, now>>

(***************************************************************************)
(* GET /api/crops/nearby                                                   *)
(***************************************************************************)
DefaultRadius == 100

\* metres of great circle per degree of arc (the sphere $near measures on)
MetersPerDegree == 111319

\* parseFloat on a query parameter: {x}, or {} for NaN.
ParseFloat(s) ==
    CASE s = "0" -> {0}
      [] s = "1" -> {1}
      [] s = "-179" -> {-179}
      [] s = "178" -> {178}
      [] s = "179" -> {179}
      [] s = "91" -> {91}
      [] s = "112" -> {112}
      [] s = "223" -> {223}
      [] OTHER -> {}

\* query(f).isFloat({ min, max })
IsFloatStringIn(s, min, max) ==
    \E x \in ParseFloat(s) : min <= x /\ x <= max

NearbyInvalid(query) ==
    {f \in {"latitude", "longitude", "radius", "date"} :
        \/ f = "latitude" /\ ~IsFloatStringIn(query.latitude, -90, 90)
        \/ f = "longitude" /\ ~IsFloatStringIn(query.longitude, -180, 180)
        \/ f = "radius" /\ query.radius # "" /\ ~(\E x \in ParseFloat(query.radius) : 1 <= x)
        \/ f = "date" /\ query.date # "" /\ ~IsISO8601(query.date)}

Abs(x) == IF x < 0 THEN -x ELSE x

\* The arc, in degrees, between two [longitude, latitude] points that lie
\* on one meridian or both on the equator (the points of this model).
ArcDegrees(a, b) ==
    CASE a[1] = b[1] -> Abs(a[2] - b[2])
      [] a[1] # b[1] /\ a[2] = 0 /\ b[2] = 0 ->
            Min(Abs(a[1] - b[1]), 360 - Abs(a[1] - b[1]))

NearbyMatches_NoScale(crop, near) ==
    /\ ArcDegrees(crop.location.coordinates, near.coordinates) * MetersPerDegree
          <= near.radius
    /\ crop.floweringStart <= near.queryDate
    /\ crop.floweringEnd >= near.queryDate

\* { location: { $near: { $geometry: { type: "Point", coordinates: [longitude, latitude] },
\*                        $maxDistance: radius * 1000 } },
\*   floweringStart: { $lte: queryDate }, floweringEnd: { $gte: queryDate } }
NearbyMatches(crop, near) ==
    /\ ArcDegrees(crop.location.coordinates, near.coordinates) * MetersPerDegree
          <= near.radius * 1000
    /\ crop.floweringStart <= near.queryDate
    /\ crop.floweringEnd >= near.queryDate

\* The orders $near can give the matching documents: nearest first.
NearOrders(ids, point) ==
    {order \in [1..Cardinality(ids) -> ids] :
        /\ Injective(order)
        /\ \A a, b \in DOMAIN order :
              a < b => ArcDegrees(crops[order[a]].location.coordinates, point)
                          <= ArcDegrees(crops[order[b]].location.coordinates, point)}

GetNearbyStart(p, header, query) ==
    /\ CanArrive(p)
    /\ LET r == Arrival("getNearby", "find", [header |-> header, query |-> query])
           denied == AuthenticateToken(header, now)
       IN  IF denied # NoResponse
           THEN req' = [req EXCEPT ![p] = [r EXCEPT !.pc = "done", !.res = denied]]
           ELSE IF NearbyInvalid(query) # {}
                THEN req' = [req EXCEPT ![p] =
                         [r EXCEPT !.pc = "done",
                                   !.res = ValidationErrors(NearbyInvalid(query))]]
                ELSE req' = [req EXCEPT ![p] =
                         [r EXCEPT !.loc =
                            [coordinates |->
                                << CHOOSE x \in ParseFloat(query.longitude) : TRUE,
                                   CHOOSE x \in ParseFloat(query.latitude) : TRUE >>,
                             radius |-> OrDefault(ParseFloat(query.radius), DefaultRadius),
                             queryDate |-> IF query.date # "" THEN NewDate(query.date)
                                           ELSE now,
                             nFind |-> 0]]]
    /\ UNCHANGED <<users, hives, crops, issued, now>>

\* const crops = await Crop.find({...})
\* (nFind is history: how many documents the collection held at the query)
GetNearbyFind(p) ==
    /\ At(p, "getNearby", "find")
    /\ LET near == req[p].loc
           ids == {i \in DOMAIN crops : NearbyMatches(crops[i], near)}
       IN  \E order \in NearOrders(ids, near.coordinates) :
              req' = [req EXCEPT
                  ![p].pc = "done",
                  ![p].loc = [near EXCEPT !.nFind = Len(crops)],
                  ![p].res =
                      IF Len(order) = 0
                      THEN [status |-> 200, kind |-> "noCrops",
                            data |-> [message |-> "No crops found nearby for the given date",
                                      crops |-> <<>>]]
                      ELSE [status |-> 200, kind |-> "crops",
                            data |-> [crops |-> [k \in DOMAIN order |-> crops[order[k]]]]]]
    /\ UNCHANGED <<users, hives, crops, issued, now>>

(***************************************************************************)
(* The crop routes, called by a user who logged in at time 0.              *)
(***************************************************************************)
CropBody(name, floweringStart, floweringEnd, latitude, longitude, density) ==
    [name |-> name, floweringStart |-> floweringStart, floweringEnd |-> floweringEnd,
     latitude |-> latitude, longitude |-> longitude, recommendedHiveDensity |-> density]

InvalidCropBody == CropBody("", "soon", "later", -91, 181, 0)

CropBodies ==
    {CropBody("Sunflower", "2025-04-08T00:30Z", "2025-04-08T01:00Z", 0, 179, 5),
     CropBody("Mustard", "2025-04-08T00:00Z", "2025-04-08T01:30Z", 0, -179, 3),
     CropBody("Clover", "2025-04-08T01:00Z", "2025-04-08T01:00Z", 0, 179, 1),
     CropBody("Lavender", "2025-04-08T01:30Z", "2025-04-08T00:00Z", 0, 178, 2),
     InvalidCropBody}

NearbyQuery(latitude, longitude, radius, date) ==
    [latitude |-> latitude, longitude |-> longitude, radius |-> radius, date |-> date]

NearbyQueries ==
    {NearbyQuery("0", "179", "", ""),
     NearbyQuery("0", "-179", "223", "2025-04-08T01:00Z"),
     NearbyQuery("0", "178", "112", "2025-04-08T00:30Z"),
     NearbyQuery("91", "", "0", "today")}

\* The requests carry the token bee1 was given at the given time, but for
\* one of each route that carries none.
CropPosts(time) ==
    {<<Bearer(SeedToken(2, time)), body>> : body \in CropBodies \ {InvalidCropBody}}
        \cup {<<NoHeader, InvalidCropBody>>}

NearbyGets(time) ==
    {<<Bearer(SeedToken(2, time)), query>> : query \in NearbyQueries}

\* The server's clock stands at any time of the model; bee1 has just
\* logged in.
InitCrops ==
    /\ users = SeedUsers
    /\ hives = <<>>
    /\ crops = <<>>
    /\ now \in 0..MaxTime
    /\ issued = {SeedToken(2, now)}
    /\ req = [p \in 1..MaxReq |-> Idle]

NextCrops ==
    \/ \E p \in Slots, post \in CropPosts(now) : PostCropsStart(p, post[1], post[2])
    \/ \E p \in Slots : PostCropsSave(p)
    \/ \E p \in Slots, get \in NearbyGets(now) : GetNearbyStart(p, get[1], get[2])
    \/ \E p \in Slots : GetNearbyFind(p)

SpecCrops == InitCrops /\ [][NextCrops]_vars

\* A POST /api/crops that got past authenticateToken and the validators.
PostCropsAdmitted(p) ==
    /\ req[p].route = "postCrops"
    /\ AuthenticateToken(req[p].in.header, req[p].at) = NoResponse
    /\ PostCropsInvalid(req[p].in.body) = {}

\* C8: an authenticated POST /api/crops with otherwise valid fields is
\* answered 400 and stores nothing when floweringStart >= floweringEnd, and
\* is answered 201 (its record stored) when floweringStart < floweringEnd;
\* so every stored crop has floweringStart < floweringEnd.
C8_FloweringOrder ==
    /\ \A p \in Slots :
          (PostCropsAdmitted(p) /\ req[p].pc = "done") =>
              IF DateTable[req[p].in.body.floweringStart]
                    < DateTable[req[p].in.body.floweringEnd]
              THEN /\ req[p].res.status = 201
                   /\ \E i \in DOMAIN crops : crops[i] = req[p].res.data
              ELSE req[p].res = ErrorJson(400, "floweringStart must be before floweringEnd")
    /\ Len(crops) <= Cardinality({p \in Slots : req[p].route = "postCrops"
                                               /\ req[p].res.status = 201})
    /\ \A i \in DOMAIN crops : crops[i].floweringStart < crops[i].floweringEnd

\* One crop stored, one refused for floweringStart = floweringEnd, one for
\* floweringStart > floweringEnd.
C8_Witness ==
    \E p, q, r \in Slots :
        /\ PostCropsAdmitted(p) /\ req[p].res.status = 201
        /\ PostCropsAdmitted(q) /\ req[q].res.status = 400
        /\ req[q].in.body.floweringStart = req[q].in.body.floweringEnd
        /\ PostCropsAdmitted(r) /\ req[r].res.status = 400
        /\ DateTable[req[r].in.body.floweringStart] > DateTable[req[r].in.body.floweringEnd]

\* Whether a stored crop lies within km kilometres of (latitude, longitude).
WithinKm(crop, latitude, longitude, km) ==
    ArcDegrees(<<crop.location.coordinates[1], crop.location.coordinates[2]>>,
               <<longitude, latitude>>) * MetersPerDegree <= km * 1000

\* C9: GET /api/crops/nearby answers 200 with exactly the stored crops
\* within radius km (default 100) of the point whose window contains the
\* date (default: the server's time), both ends included; none is a 200
\* with an empty list.
C9_NearbyExact ==
    \A p \in Slots :
        (/\ req[p].route = "getNearby" /\ req[p].pc = "done"
         /\ NearbyInvalid(req[p].in.query) = {}) =>
            LET query == req[p].in.query
                latitude == CHOOSE x \in ParseFloat(query.latitude) : TRUE
                longitude == CHOOSE x \in ParseFloat(query.longitude) : TRUE
                km == IF query.radius = "" THEN 100
                      ELSE CHOOSE x \in ParseFloat(query.radius) : TRUE
                date == IF query.date = "" THEN req[p].at ELSE DateTable[query.date]
                want == {i \in 1..req[p].loc.nFind :
                            /\ WithinKm(crops[i], latitude, longitude, km)
                            /\ crops[i].floweringStart <= date
                            /\ date <= crops[i].floweringEnd}
                got == req[p].res.data.crops
            IN  /\ req[p].res.status = 200
                /\ {got[k] : k \in DOMAIN got} = {crops[i] : i \in want}
                /\ Len(got) = Cardinality(want)

\* A query returned two crops, one of them across the antimeridian and in
\* the last instant of its window.
C9_Witness ==
    \E p \in Slots :
        /\ req[p].route = "getNearby" /\ req[p].res.status = 200
        /\ req[p].in.query = NearbyQuery("0", "-179", "223", "2025-04-08T01:00Z")
        /\ Len(req[p].res.data.crops) = 2

(***************************************************************************)
(* GET /export/hives, GET /export/crops, GET /sync, GET /admin             *)
(***************************************************************************)
\* new Parser({ fields }).parse(rows): the header line, then one line per
\* row with the fields' values in the fields' order.
ParseCsv(fields, rows) ==
    <<fields>> \o [k \in DOMAIN rows |-> [f \in DOMAIN fields |-> rows[k][fields[f]]]]

HiveFields ==
    <<"hiveId", "datePlaced", "latitude", "longitude", "numColonies", "dateCreated">>

CropFields ==
    <<"name", "floweringStart", "floweringEnd", "recommendedHiveDensity",
      "latitude", "longitude", "dateCreated">>

\* A row that reads the point as [latitude, longitude].
CropRow_Swapped(crop) ==
    [name |-> crop.name,
     floweringStart |-> crop.floweringStart,
     floweringEnd |-> crop.floweringEnd,
     recommendedHiveDensity |-> crop.recommendedHiveDensity,
     latitude |-> crop.location.coordinates[1],
     longitude |-> crop.location.coordinates[2],
     dateCreated |-> crop.dateCreated]

\* crops.map(crop => ({ ..., latitude: crop.location.coordinates[1],
\*                           longitude: crop.location.coordinates[0], ... }))
\* (JavaScript counts from 0: coordinates[0] is the first element)
CropRow(crop) ==
    [name |-> crop.name,
     floweringStart |-> crop.floweringStart,
     floweringEnd |-> crop.floweringEnd,
     recommendedHiveDensity |-> crop.recommendedHiveDensity,
     latitude |-> crop.location.coordinates[2],
     longitude |-> crop.location.coordinates[1],
     dateCreated |-> crop.dateCreated]

RequireAdmin_AnyRole(user) == NoResponse

\* What requireAdmin answers, or NoResponse when it calls next().
RequireAdmin(user) ==
    IF user.role # "admin"
    THEN ErrorJson(403, "Admin access required")
    ELSE NoResponse

\* authenticateToken, requireAdmin: what the two answer, or NoResponse
\* when both call next().
AdminOnly(header, time) ==
    IF AuthenticateToken(header, time) # NoResponse
    THEN AuthenticateToken(header, time)
    ELSE RequireAdmin(ReqUser(header))

\* The start of the three admin routes; the two exports await a find, the
\* admin page answers at once.
AdminPage == [status |-> 200, kind |-> "html", data |-> "Admin Dashboard"]

AdminStart(p, route, header) ==
    /\ CanArrive(p)
    /\ route \in {"exportHives", "exportCrops", "admin"}
    /\ LET r == Arrival(route, "find", [header |-> header])
           denied == AdminOnly(header, now)
       IN  IF denied # NoResponse
           THEN req' = [req EXCEPT ![p] = [r EXCEPT !.pc = "done", !.res = denied]]
           ELSE IF route = "admin"
                THEN req' = [req EXCEPT ![p] = [r EXCEPT !.pc = "done", !.res = AdminPage]]
                ELSE req' = [req EXCEPT ![p] = r]
    /\ UNCHANGED <<users, hives, crops, issued, now>>

\* const hives = await Hive.find({}); ... res.send(csv)
ExportHivesFind(p) ==
    /\ At(p, "exportHives", "find")
    /\ Respond(p, [status |-> 200, kind |-> "csv", data |-> ParseCsv(HiveFields, hives)])
    /\ UNCHANGED <<users, hives, crops, issued, now>>

\* const crops = await Crop.find({}); ... res.send(csv)
ExportCropsFind(p) ==
    /\ At(p, "exportCrops", "find")
    /\ Respond(p, [status |-> 200, kind |-> "csv",
                   data |-> ParseCsv(CropFields, [k \in DOMAIN crops |-> CropRow(crops[k])])])
    /\ UNCHANGED <<users, hives, crops, issued, now>>

\* app.get('/sync', authenticateToken, ...): res.json({ syncToken: Date.now() })
Sync(p, header) ==
    /\ CanArrive(p)
    /\ LET r == Arrival("sync", "done", [header |-> header])
           denied == AuthenticateToken(header, now)
       IN  req' = [req EXCEPT ![p] =
               [r EXCEPT !.res = IF denied # NoResponse THEN denied
                                 ELSE [status |-> 200, kind |-> "sync",
                                       data |-> [syncToken |-> now]]]]
    /\ UNCHANGED <<users, hives, crops, issued, now>>

(***************************************************************************)
(* Every route behind authenticateToken, called with and without tokens    *)
(* while the clock runs.  The two seeded users logged in at time 0; the    *)
(* collections hold a hive and a crop.                                     *)
(***************************************************************************)
MaxProtected == 2

\* A string that is no JWT, and a JWT signed with another key.
Malformed == [kind |-> "malformed"]

Forged ==
    [kind |-> "jwt",
     payload |-> [id |-> 1, username |-> "admin1", role |-> "admin", syncToken |-> 0],
     iat |-> 0, exp |-> MaxTime + ExpiresIn, sig |-> "guessed"]

Admin1 == Bearer(SeedToken(1, 0))
Bee1 == Bearer(SeedToken(2, 0))

InvalidHiveBody == HiveBody("", "yesterday", 91, -181, 0)

SeedHive == NewHive(HiveBody("HIVE004", "2025-04-08T00:30Z", 28, 77, 5), 0)

SeedCrop ==
    NewCrop(CropBody("Sunflower", "2025-04-08T00:30Z", "2025-04-08T01:00Z", 0, 179, 5), 0)

\* Each route is called with bee1's token, and with no token or a bad
\* one; a route that validates its input gets input the validators pass
\* and input they refuse; an admin route is also called with admin1's.
ProtectedHivePosts ==
    {<<Bee1, InvalidHiveBody>>,
     <<Bee1, HiveBody("HIVE005", "2025-04-08T01:00Z", -90, 180, 1)>>,
     <<NoHeader, InvalidHiveBody>>}

ProtectedHiveGets ==
    {<<Bee1, HivesQuery("", "", "", "")>>,
     <<SchemeOnly, HivesQuery("", "", "", "")>>}

ProtectedCropPosts ==
    {<<Bee1, InvalidCropBody>>,
     <<Bee1, CropBody("Mustard", "2025-04-08T00:00Z", "2025-04-08T01:30Z", 0, -179, 3)>>,
     <<Bearer(Malformed), InvalidCropBody>>}

ProtectedNearbyGets ==
    {<<Bee1, NearbyQuery("91", "", "0", "today")>>,
     <<Bee1, NearbyQuery("0", "179", "", "")>>,
     <<Bearer(Forged), NearbyQuery("91", "", "0", "today")>>}

ProtectedAdminGets ==
    {<<route, header>> : route \in {"exportHives", "exportCrops", "admin"},
                         header \in {Admin1, Bee1}}
        \cup {<<"exportHives", Bearer(Forged)>>, <<"exportCrops", NoHeader>>,
              <<"admin", Bearer(Malformed)>>}

ProtectedSyncs == {Bee1, SchemeOnly}

InitProtected ==
    /\ users = SeedUsers
    /\ hives = <<SeedHive>>
    /\ crops = <<SeedCrop>>
    /\ issued = {SeedToken(1, 0), SeedToken(2, 0)}
    /\ now = 0
    /\ req = [p \in 1..MaxProtected |-> Idle]

NextProtected ==
    \/ \E p \in Slots, post \in ProtectedHivePosts : PostHivesStart(p, post[1], post[2])
    \/ \E p \in Slots : PostHivesFindOne(p)
    \/ \E p \in Slots : PostHivesSave(p)
    \/ \E p \in Slots, get \in ProtectedHiveGets : GetHivesStart(p, get[1], get[2])
    \/ \E p \in Slots : GetHivesFind(p)
    \/ \E p \in Slots : GetHivesCount(p)
    \/ \E p \in Slots, post \in ProtectedCropPosts : PostCropsStart(p, post[1], post[2])
    \/ \E p \in Slots : PostCropsSave(p)
    \/ \E p \in Slots, get \in ProtectedNearbyGets : GetNearbyStart(p, get[1], get[2])
    \/ \E p \in Slots : GetNearbyFind(p)
    \/ \E p \in Slots, get \in ProtectedAdminGets : AdminStart(p, get[1], get[2])
    \/ \E p \in Slots : ExportHivesFind(p)
    \/ \E p \in Slots : ExportCropsFind(p)
    \/ \E p \in Slots, header \in ProtectedSyncs : Sync(p, header)
    \/ Tick

SpecProtected == InitProtected /\ [][NextProtected]_vars

AdminRoutes == {"exportHives", "exportCrops", "admin"}

ProtectedRoutes ==
    {"postHives", "getHives", "postCrops", "getNearby", "sync"} \cup AdminRoutes

TokenMissing(p) == req[p].in.header.kind \in {"absent", "scheme"}

\* The request carries a token the server issued, less than one hour
\* before the request arrived.
TokenValid(p) ==
    /\ req[p].in.header.kind = "bearer"
    /\ req[p].in.header.token \in issued
    /\ req[p].at - req[p].in.header.token.iat < TicksPerHour

\* C6: the two exports and the admin page answer 403 'Admin access
\* required', with no stored data, to every verified token whose role is
\* not admin, and answer 200 only to a verified token whose role is admin.
C6_AdminOnly ==
    \A p \in Slots :
        req[p].route \in AdminRoutes =>
            /\ (TokenValid(p) /\ req[p].in.header.token.payload.role # "admin") =>
                  /\ req[p].pc = "done"
                  /\ req[p].res = ErrorJson(403, "Admin access required")
            /\ req[p].res.status = 200 =>
                  /\ TokenValid(p)
                  /\ req[p].in.header.token.payload.role = "admin"

\* bee1 was refused the hive export that admin1 was given, with its row.
C6_Witness ==
    \E p, q \in Slots :
        /\ req[p].route = "exportHives" /\ req[p].in.header = Bee1
        /\ TokenValid(p) /\ req[p].res.status = 403
        /\ req[q].route = "exportHives" /\ req[q].in.header = Admin1
        /\ req[q].res.status = 200 /\ req[q].res.kind = "csv"
        /\ Len(req[q].res.data) = 2

SomethingBroke == [status |-> 500, kind |-> "text", data |-> "Something broke!"]

\* The routes that take a JSON body.
BodyRoutes == {"register", "login", "postHives", "postCrops"}

\* A request to a body route whose body express.json() cannot parse.
JsonRejects(p, route) ==
    /\ CanArrive(p)
    /\ route \in BodyRoutes
    /\ req' = [req EXCEPT ![p] =
           [Arrival(route, "done", [raw |-> "{"]) EXCEPT
               !.res = SomethingBroke, !.loc = [err |-> "SyntaxError"]]]
    /\ UNCHANGED <<users, hives, crops, issued, now>>

\* The call a handler is suspended at rejects (the store cannot be reached,
\* a library throws): every await of every handler is inside its try.
AwaitRejects(p) ==
    /\ p \in InFlight
    /\ Catch(p, "unavailable")
    /\ UNCHANGED <<users, hives, crops, issued, now>>

\* Every route, with input its checks pass and input they refuse, a new
\* username and a stored one, an admin's token and a beekeeper's.
FaultRegisters ==
    {RegisterBody("bee2", "secret1", "beekeeper"),
     RegisterBody("bee1", "secret2", "admin"),
     RegisterBody("", "short", "guest")}

FaultLogins == {LoginBody("bee1", "password123"), LoginBody("", "")}

FaultHivePosts ==
    {<<Bee1, InvalidHiveBody>>,
     <<Bee1, HiveBody("HIVE005", "2025-04-08T01:00Z", -90, 180, 1)>>}

FaultHiveGets == {<<Bee1, HivesQuery("", "", "", "")>>}

FaultCropPosts ==
    {<<Bee1, InvalidCropBody>>,
     <<Bee1, CropBody("Mustard", "2025-04-08T00:00Z", "2025-04-08T01:30Z", 0, -179, 3)>>}

FaultNearbyGets ==
    {<<Bee1, NearbyQuery("91", "", "0", "today")>>,
     <<Bee1, NearbyQuery("0", "179", "", "")>>}

FaultAdminGets ==
    {<<"exportHives", Admin1>>, <<"exportCrops", Admin1>>,
     <<"exportCrops", Bee1>>, <<"admin", Bee1>>}

InitFaults == InitProtected

NextFaults ==
    \/ \E p \in Slots, body \in FaultRegisters : RegisterStart(p, body)
    \/ \E p \in Slots : RegisterFindOne(p)
    \/ \E p \in Slots : RegisterHash(p)
    \/ \E p \in Slots : RegisterSave(p)
    \/ \E p \in Slots, body \in FaultLogins : LoginStart(p, body)
    \/ \E p \in Slots : LoginFindOne(p)
    \/ \E p \in Slots : LoginCompare(p)
    \/ \E p \in Slots, post \in FaultHivePosts : PostHivesStart(p, post[1], post[2])
    \/ \E p \in Slots : PostHivesFindOne(p)
    \/ \E p \in Slots : PostHivesSave(p)
    \/ \E p \in Slots, get \in FaultHiveGets : GetHivesStart(p, get[1], get[2])
    \/ \E p \in Slots : GetHivesFind(p)
    \/ \E p \in Slots : GetHivesCount(p)
    \/ \E p \in Slots, post \in FaultCropPosts : PostCropsStart(p, post[1], post[2])
    \/ \E p \in Slots : PostCropsSave(p)
    \/ \E p \in Slots, get \in FaultNearbyGets : GetNearbyStart(p, get[1], get[2])
    \/ \E p \in Slots : GetNearbyFind(p)
    \/ \E p \in Slots, get \in FaultAdminGets : AdminStart(p, get[1], get[2])
    \/ \E p \in Slots : ExportHivesFind(p)
    \/ \E p \in Slots : ExportCropsFind(p)
    \/ \E p \in Slots : Sync(p, Bee1)
    \/ \E p \in Slots, route \in BodyRoutes : JsonRejects(p, route)
    \/ \E p \in Slots : AwaitRejects(p)

SpecFaults == InitFaults /\ [][NextFaults]_vars

\* What the request's handler caught, or what the body parser threw.
Err(p) == IF req[p].loc # <<>> /\ "err" \in DOMAIN req[p].loc THEN req[p].loc.err ELSE "none"

\* The request's body or query was parsed and its route's checks refuse it.
InputRefused(p) ==
    /\ Err(p) # "SyntaxError"
    /\ CASE req[p].route = "register" -> RegisterInvalid(req[p].in) # {}
         [] req[p].route = "login" -> LoginInvalid(req[p].in) # {}
         [] req[p].route = "postHives" -> PostHivesInvalid(req[p].in.body) # {}
         [] req[p].route = "postCrops" -> PostCropsInvalid(req[p].in.body) # {}
         [] req[p].route = "getNearby" -> NearbyInvalid(req[p].in.query) # {}
         [] OTHER -> FALSE

\* The next step of a suspended handler when nothing fails.
Resumes(p) ==
    \/ RegisterFindOne(p) \/ RegisterHash(p) \/ RegisterSave(p)
    \/ LoginFindOne(p) \/ LoginCompare(p)
    \/ PostHivesFindOne(p) \/ PostHivesSave(p)
    \/ GetHivesFind(p) \/ GetHivesCount(p)
    \/ PostCropsSave(p) \/ GetNearbyFind(p)
    \/ ExportHivesFind(p) \/ ExportCropsFind(p)

\* C11: every request gets one response, and each failure the status of
\* its kind: input the checks refuse 400, a uniqueness violation 400, a
\* role mismatch 403, a failed store or library call (and a body that
\* cannot be parsed, through the error middleware) a generic 500; a
\* suspended handler can always resume, and a failure does not keep the
\* next request from being taken.
C11_FailuresTranslated ==
    \A p \in Slots :
        /\ (req[p].res # NoResponse) <=> (req[p].pc = "done")
        /\ p \in InFlight => ENABLED Resumes(p)
        /\ CanArrive(p) => ENABLED Sync(p, Bee1)
        /\ req[p].pc = "done" =>
              /\ InputRefused(p) => req[p].res.status = 400
              /\ Err(p) = "E11000" => req[p].res.status = 400
              /\ (req[p].route \in AdminRoutes
                     /\ req[p].in.header.token.payload.role # "admin") =>
                    req[p].res.status = 403
              /\ Err(p) \in {"unavailable", "GeoIndex"} => req[p].res = ServerError
              /\ Err(p) = "SyntaxError" => req[p].res = SomethingBroke

\* The collection s is the beginning of the collection t.
IsPrefix(s, t) == Len(s) <= Len(t) /\ SubSeq(t, 1, Len(s)) = s

ReadOnlyRoutes ==
    {"login", "getHives", "getNearby", "exportHives", "exportCrops", "sync", "admin"}

\* C12: the three collections only grow at the end: no step changes or
\* removes a stored document; a step of a read-only route, and a step that
\* answers 400, 401 or 403, changes none of them; a collection changes
\* only in the step that answers one request 201 and touches no other
\* request; and an answered request never acts again.
C12_AppendOnly ==
    [][ /\ IsPrefix(users, users') /\ IsPrefix(hives, hives') /\ IsPrefix(crops, crops')
        /\ \A p \in Slots :
              /\ req[p].pc = "done" => req'[p] = req[p]
              /\ (/\ req'[p] # req[p]
                  /\ \/ req'[p].route \in ReadOnlyRoutes
                     \/ req'[p].res.status \in {400, 401, 403}) =>
                    <<users, hives, crops>>' = <<users, hives, crops>>
        /\ <<users, hives, crops>>' # <<users, hives, crops>> =>
              \E p \in Slots :
                  /\ req[p].pc # "done"
                  /\ req'[p].res.status = 201
                  /\ req'[p].route \in {"register", "postHives", "postCrops"}
                  /\ \A q \in Slots \ {p} : req'[q] = req[q]
      ]_vars

\* A user was registered behind the two stored ones, and a second request
\* for the same username was answered 400.
C12_Witness ==
    \E p, q \in Slots :
        /\ req[p].route = "register" /\ req[p].res.status = 201
        /\ req[q].route = "register" /\ req[q].res = ErrorJson(400, "Username already exists")
        /\ Err(q) = "none" /\ req[q].in = req[p].in
        /\ Len(users) = Len(SeedUsers) + 1 /\ IsPrefix(SeedUsers, users)

(***************************************************************************)
(* Crops added, queried at the places they were added at, and exported.    *)
(* The collection starts empty; the places lie on the prime meridian, one  *)
(* degree of latitude (111 km) apart.                                      *)
(***************************************************************************)
GeoCropPosts ==
    {<<Bee1, CropBody("Thyme", "2025-04-08T00:00Z", "2025-04-08T01:30Z", 1, 0, 2)>>,
     <<Bee1, CropBody("Clover", "2025-04-08T00:00Z", "2025-04-08T01:00Z", 0, 0, 4)>>}

GeoNearbyGets ==
    {<<Bee1, NearbyQuery("1", "0", "1", "")>>,
     <<Bee1, NearbyQuery("0", "0", "1", "")>>}

InitGeo ==
    /\ users = SeedUsers
    /\ hives = <<>>
    /\ crops = <<>>
    /\ issued = {SeedToken(1, 0), SeedToken(2, 0)}
    /\ now = 0
    /\ req = [p \in 1..MaxReq |-> Idle]

NextGeo ==
    \/ \E p \in Slots, post \in GeoCropPosts : PostCropsStart(p, post[1], post[2])
    \/ \E p \in Slots : PostCropsSave(p)
    \/ \E p \in Slots, get \in GeoNearbyGets : GetNearbyStart(p, get[1], get[2])
    \/ \E p \in Slots : GetNearbyFind(p)
    \/ \E p \in Slots : AdminStart(p, "exportCrops", Admin1)
    \/ \E p \in Slots : ExportCropsFind(p)

SpecGeo == InitGeo /\ [][NextGeo]_vars

CropAdded(q) == req[q].route = "postCrops" /\ req[q].res.status = 201

\* The column of the CSV that its header line gives the name.
Column(csv, name) == CHOOSE i \in DOMAIN csv[1] : csv[1][i] = name

\* C13: a crop added with (latitude, longitude) is stored as the point
\* [longitude, latitude]; a nearby query is made at [longitude, latitude]
\* of its parameters, so that a query at the submitted latitude and
\* longitude, on a date in the window, returns the crop within the
\* smallest radius; and the crop's line of the crops export has the
\* submitted latitude in the latitude column and the submitted longitude
\* in the longitude column.
C13_CoordinatesRoundTrip ==
    \A p \in Slots :
        /\ CropAdded(p) =>
              /\ req[p].res.data.location.coordinates =
                    <<req[p].in.body.longitude, req[p].in.body.latitude>>
              /\ \E i \in DOMAIN crops : crops[i] = req[p].res.data
        /\ (req[p].route = "getNearby" /\ req[p].res.status = 200) =>
              /\ ParseFloat(req[p].in.query.longitude) = {req[p].loc.coordinates[1]}
              /\ ParseFloat(req[p].in.query.latitude) = {req[p].loc.coordinates[2]}
              /\ \A q \in req[p].seen :
                    (/\ CropAdded(q)
                     /\ ParseFloat(req[p].in.query.latitude) = {req[q].in.body.latitude}
                     /\ ParseFloat(req[p].in.query.longitude) = {req[q].in.body.longitude}
                     /\ req[q].res.data.floweringStart <= req[p].loc.queryDate
                     /\ req[p].loc.queryDate <= req[q].res.data.floweringEnd) =>
                        \E k \in DOMAIN req[p].res.data.crops :
                            req[p].res.data.crops[k] = req[q].res.data
        /\ (req[p].route = "exportCrops" /\ req[p].res.status = 200) =>
              LET csv == req[p].res.data
              IN  \A k \in 2..Len(csv) :
                      /\ \E q \in Slots : CropAdded(q) /\ req[q].res.data = crops[k - 1]
                      /\ \A q \in Slots :
                            (CropAdded(q) /\ req[q].res.data = crops[k - 1]) =>
                                /\ csv[k][Column(csv, "name")] = req[q].in.body.name
                                /\ csv[k][Column(csv, "latitude")] = req[q].in.body.latitude
                                /\ csv[k][Column(csv, "longitude")] = req[q].in.body.longitude

\* Thyme was added at latitude 1, longitude 0; a query at ("1", "0") with
\* radius 1 km then returned it, and the export then listed it with
\* latitude 1 and longitude 0.
C13_Witness ==
    \E p, n, e \in Slots :
        /\ CropAdded(p) /\ req[p].in.body.name = "Thyme"
        /\ req[p].in.body.latitude = 1 /\ req[p].in.body.longitude = 0
        /\ req[n].route = "getNearby" /\ p \in req[n].seen
        /\ req[n].in.query = NearbyQuery("1", "0", "1", "")
        /\ req[n].res.kind = "crops" /\ req[n].res.data.crops = <<req[p].res.data>>
        /\ req[e].route = "exportCrops" /\ req[e].res.status = 200
        /\ Len(req[e].res.data) = 2
        /\ req[e].res.data[2][Column(req[e].res.data, "latitude")] = 1
        /\ req[e].res.data[2][Column(req[e].res.data, "longitude")] = 0

====
